---- MODULE Spec2Model ----
(***************************************************************************)
(* Cardinal B-splines on Lie groups (smooth/interp/bspline.hpp).           *)
(*                                                                         *)
(* Scalars (double) are modelled as exact rationals <<n, d>> in lowest     *)
(* terms with d > 0; the two doubles +inf and -inf are <<1, 0>> and        *)
(* <<-1, 0>> and occur only as query times.  The group G is instantiated   *)
(* by the Heisenberg group H3, a non-commutative Lie group whose exp, log, *)
(* Ad, ad and exponential Jacobians are polynomial, hence exact.           *)
(***************************************************************************)
EXTENDS Integers, Sequences, FiniteSets, TLC

VARIABLES
  spline,   \* the BSpline object: [K, t0, dt, ctrl_pts]
  call,     \* the call in progress / just returned: its inputs and outcome
  vel,      \* caller's storage behind the optional vel reference
  acc,      \* caller's storage behind the optional acc reference
  der       \* caller's storage behind the optional der reference

vars == <<spline, call, vel, acc, der>>

----------------------------------------------------------------------------
(* Scalar arithmetic *)

Abs(n) == IF n < 0 THEN -n ELSE n

RECURSIVE Gcd(_, _)
Gcd(a, b) == IF b = 0 THEN a ELSE Gcd(b, a % b)

Rat(n, d) ==
  IF d = 1 THEN <<n, 1>>
  ELSE LET s == IF d < 0 THEN -1 ELSE 1
           g == Gcd(Abs(n), Abs(d))
       IN  <<(s * n) \div g, (s * d) \div g>>

Zero == <<0, 1>>
One == <<1, 1>>
FromInt(n) == <<n, 1>>

RAdd(a, b) ==
  IF a[1] = 0 THEN b
  ELSE IF b[1] = 0 THEN a
  ELSE IF a[2] = b[2] THEN Rat(a[1] + b[1], a[2])
  ELSE LET g == Gcd(a[2], b[2])
       IN  Rat(a[1] * (b[2] \div g) + b[1] * (a[2] \div g), (a[2] \div g) * b[2])
RNeg(a) == <<-a[1], a[2]>>
RSub(a, b) == RAdd(a, RNeg(b))
RMul(a, b) ==
  IF a[1] = 0 \/ b[1] = 0 THEN Zero
  ELSE IF a[2] = 1 /\ b[2] = 1 THEN <<a[1] * b[1], 1>>
  ELSE LET g1 == Gcd(Abs(a[1]), b[2])
           g2 == Gcd(Abs(b[1]), a[2])
       IN  <<(a[1] \div g1) * (b[1] \div g2), (a[2] \div g2) * (b[2] \div g1)>>
RDiv(a, b) == RMul(a, IF b[1] < 0 THEN <<-b[2], -b[1]>> ELSE <<b[2], b[1]>>)
RLt(a, b) == a[1] * b[2] < b[1] * a[2]
RLe(a, b) == a[1] * b[2] <= b[1] * a[2]

----------------------------------------------------------------------------
(* meta::StaticMatrix: a zero-initialised R x C matrix, indexed from 0 *)

ZeroMat(R, C) == [i \in 0..(R - 1) |-> [j \in 0..(C - 1) |-> Zero]]

RECURSIVE DotFrom(_, _, _, _)
DotFrom(f, g, k, n) ==
  IF k > n THEN Zero ELSE RAdd(RMul(f[k], g[k]), DotFrom(f, g, k + 1, n))

MatMul(A, B, R, N, C) ==
  [i \in 0..(R - 1) |-> [j \in 0..(C - 1) |->
     DotFrom(A[i], [k \in 0..(N - 1) |-> B[k][j]], 0, N - 1)]]

MatAdd(A, B, R, C) ==
  [i \in 0..(R - 1) |-> [j \in 0..(C - 1) |-> RAdd(A[i][j], B[i][j])]]

Transpose(A, R, C) ==
  [j \in 0..(C - 1) |-> [i \in 0..(R - 1) |-> A[i][j]]]

----------------------------------------------------------------------------
(* detail::card_coeffmat<Scalar, K>() *)

RECURSIVE card_coeffmat(_)
card_coeffmat(K) ==
  IF K = 0 THEN [i \in {0} |-> [j \in {0} |-> One]]
  ELSE
    LET coeff_mat_km1 == card_coeffmat(K - 1)
        low == [i \in 0..K |-> [j \in 0..(K - 1) |->
                  IF i < K THEN coeff_mat_km1[i][j] ELSE Zero]]
        high == [i \in 0..K |-> [j \in 0..(K - 1) |->
                  IF i >= 1 THEN coeff_mat_km1[i - 1][j] ELSE Zero]]
        left == [k \in 0..(K - 1) |-> [c \in 0..K |->
                  IF c = k + 1 THEN Rat(K - (k + 1), K)
                  ELSE IF c = k THEN RSub(One, Rat(K - (k + 1), K))
                  ELSE Zero]]
        right == [k \in 0..(K - 1) |-> [c \in 0..K |->
                  IF c = k + 1 THEN Rat(1, K)
                  ELSE IF c = k THEN RNeg(Rat(1, K))
                  ELSE Zero]]
    IN  MatAdd(MatMul(low, left, K + 1, K, K + 1),
               MatMul(high, right, K + 1, K, K + 1), K + 1, K + 1)

(* detail::cum_card_coeffmat<Scalar, K>(): in every row i, for j = 0..K-1  *)
(* in turn, ret[i][K-1-j] += ret[i][K-j].                                   *)
RECURSIVE CumRow(_, _, _)
CumRow(row, K, j) ==
  IF j = K THEN row
  ELSE CumRow([row EXCEPT ![K - 1 - j] = RAdd(row[K - 1 - j], row[K - j])], K, j + 1)

\* The running sum taken as ret[i][j + 1] += ret[i][j], left to right
RECURSIVE CumRowForward(_, _, _)
CumRowForward(row, K, j) ==
  IF j = K THEN row
  ELSE CumRowForward([row EXCEPT ![j + 1] = RAdd(row[j + 1], row[j])], K, j + 1)

cum_card_coeffmat_Forward(K) ==
  LET ret == card_coeffmat(K)
  IN  [i \in 0..K |-> CumRowForward(ret[i], K, 0)]

\* The coefficient matrix returned without the running sum
cum_card_coeffmat_NotCumulative(K) == card_coeffmat(K)

cum_card_coeffmat(K) ==
  LET ret == card_coeffmat(K)
  IN  [i \in 0..K |-> CumRow(ret[i], K, 0)]

----------------------------------------------------------------------------
(* The LieGroup G and its Tangent, instantiated by the Heisenberg group:   *)
(* <<x, y, z>> is the matrix [1 x z; 0 1 y; 0 0 1], a Tangent <<a, b, c>>   *)
(* is [0 a c; 0 0 b; 0 0 0].  Dof = 3.                                      *)

Identity == <<Zero, Zero, Zero>>

Compose(g, h) ==
  <<RAdd(g[1], h[1]), RAdd(g[2], h[2]),
    RAdd(RAdd(g[3], h[3]), RMul(g[1], h[2]))>>

Inverse(g) == <<RNeg(g[1]), RNeg(g[2]), RSub(RMul(g[1], g[2]), g[3])>>

Exp(a) == <<a[1], a[2], RAdd(a[3], RMul(<<1, 2>>, RMul(a[1], a[2])))>>

Log(g) == <<g[1], g[2], RSub(g[3], RMul(<<1, 2>>, RMul(g[1], g[2])))>>

ZeroTangent == <<Zero, Zero, Zero>>
TScale(s, a) == <<RMul(s, a[1]), RMul(s, a[2]), RMul(s, a[3])>>
TAdd(a, b) == <<RAdd(a[1], b[1]), RAdd(a[2], b[2]), RAdd(a[3], b[3])>>

IdMat == [i \in 0..2 |-> [j \in 0..2 |-> IF i = j THEN One ELSE Zero]]
MScale(s, A) == [i \in 0..2 |-> [j \in 0..2 |-> RMul(s, A[i][j])]]
MMul(A, B) ==
  [i \in 0..2 |-> [j \in 0..2 |->
     RAdd(RAdd(RMul(A[i][0], B[0][j]), RMul(A[i][1], B[1][j])),
          RMul(A[i][2], B[2][j]))]]
MAdd(A, B) == [i \in 0..2 |-> [j \in 0..2 |-> RAdd(A[i][j], B[i][j])]]
MSub(A, B) == [i \in 0..2 |-> [j \in 0..2 |-> RSub(A[i][j], B[i][j])]]
MatVec(A, v) ==
  [i \in 1..3 |->
     RAdd(RAdd(RMul(A[i - 1][0], v[1]), RMul(A[i - 1][1], v[2])),
          RMul(A[i - 1][2], v[3]))]

\* g.Ad()
Ad(g) ==
  [i \in 0..2 |-> [j \in 0..2 |->
     IF i = 2 /\ j = 0 THEN RNeg(g[2])
     ELSE IF i = 2 /\ j = 1 THEN g[1]
     ELSE IdMat[i][j]]]

\* G::ad(a)
ad(a) ==
  [i \in 0..2 |-> [j \in 0..2 |->
     IF i = 2 /\ j = 0 THEN RNeg(a[2])
     ELSE IF i = 2 /\ j = 1 THEN a[1]
     ELSE Zero]]

dr_exp(a) == MSub(IdMat, MScale(<<1, 2>>, ad(a)))
dr_expinv(a) == MAdd(IdMat, MScale(<<1, 2>>, ad(a)))

\* LieGroupBase::dl_expinv
dl_expinv(a) == MAdd(MScale(<<-1, 1>>, ad(a)), dr_expinv(a))

----------------------------------------------------------------------------
(* bspline_eval, displacement form *)

MaxDeg == 4   \* largest degree whose coefficient matrix is tabulated

\* constexpr auto Ms = detail::cum_card_coeffmat<double, K>().transpose()
Ms == [K \in 0..MaxDeg |-> Transpose(cum_card_coeffmat(K), K + 1, K + 1)]

RECURSIVE uvec(_, _)
uvec(u, k) == IF k = 0 THEN One ELSE RMul(u, uvec(u, k - 1))
duvec(u, k) == IF k = 0 THEN Zero ELSE RMul(FromInt(k), uvec(u, k - 1))
d2uvec(u, k) == IF k = 0 THEN Zero ELSE RMul(FromInt(k), duvec(u, k - 1))

\* uvec.dot(M.row(j)), duvec.dot(M.row(j)), d2uvec.dot(M.row(j))
Btilde(K, j, u) == DotFrom([k \in 0..K |-> uvec(u, k)], Ms[K][j], 0, K)
dBtilde(K, j, u) == DotFrom([k \in 0..K |-> duvec(u, k)], Ms[K][j], 0, K)
d2Btilde(K, j, u) == DotFrom([k \in 0..K |-> d2uvec(u, k)], Ms[K][j], 0, K)

NoThrow == [what |-> "none", expected |-> 0, got |-> 0]
SizeError(what, expected, got) == [what |-> what, expected |-> expected, got |-> got]
BadOptionalAccess == [what |-> "bad_optional_access", expected |-> 0, got |-> 0]

\* One pass of the body of  for (std::size_t j = 1; const auto & v : diff_points)
FoldStep(K, u, has, j, v, st) ==
  LET B == Btilde(K, j, u)
      g == Compose(st.g, Exp(TScale(B, v)))
  IN  IF has.vel \/ has.acc
      THEN LET dB == dBtilde(K, j, u)
               A == Ad(Exp(TScale(RNeg(B), v)))
               vl == TAdd(MatVec(A, st.vel), TScale(dB, v))
           IN  IF has.acc
               THEN [g |-> g, vel |-> vl,
                     acc |-> TAdd(MatVec(A, st.acc),
                                  TAdd(TScale(dB, MatVec(ad(vl), v)),
                                       TScale(d2Btilde(K, j, u), v)))]
               ELSE [g |-> g, vel |-> vl, acc |-> st.acc]
      ELSE [g |-> g, vel |-> st.vel, acc |-> st.acc]

\* The displacements folded from the last to the first
RECURSIVE Fold_Reversed(_, _, _, _, _, _)
Fold_Reversed(K, diff_points, u, has, j, st) ==
  IF j > Len(diff_points) THEN st
  ELSE FoldStep(K, u, has, j, diff_points[j],
                Fold_Reversed(K, diff_points, u, has, j + 1, st))

RECURSIVE Fold(_, _, _, _, _, _)
Fold(K, diff_points, u, has, j, st) ==
  IF j > Len(diff_points) THEN st
  ELSE Fold(K, diff_points, u, has, j + 1,
            FoldStep(K, u, has, j, diff_points[j], st))

\* *(std::ranges::begin(diff_points) + p): position p of the range, counted
\* from 0; outside the range the read yields whatever lies there (before).
ReadAt(diff_points, p, before) ==
  IF p >= 0 /\ p < Len(diff_points) THEN diff_points[p + 1] ELSE before

\* One pass of the body of  for (int j = K; j >= 0; --j)
DerStep(K, diff_points, u, before, j, st) ==
  LET Btilde_jp == Btilde(K, j + 1, u)
      vjp == ReadAt(diff_points, j, before)
      sjp == TScale(Btilde_jp, vjp)
      blk1 == IF j # K
              THEN MSub(st.der[j],
                        MScale(Btilde_jp,
                               MMul(MMul(Ad(st.z2inv), dr_exp(sjp)), dl_expinv(vjp))))
              ELSE st.der[j]
      z2inv == IF j # K THEN Compose(st.z2inv, Exp(TScale(<<-1, 1>>, sjp)))
               ELSE st.z2inv
      Btilde_j == Btilde(K, j, u)
      vj == ReadAt(diff_points, j - 1, before)
      blk2 == MAdd(blk1,
                   MScale(Btilde_j,
                          MMul(MMul(Ad(z2inv), dr_exp(TScale(Btilde_j, vj))),
                               dr_expinv(vj))))
  IN  [z2inv |-> z2inv,
       der |-> [st.der EXCEPT ![j] = blk2],
       reads |-> st.reads \cup (IF j # K THEN {j, j - 1} ELSE {j - 1})]

RECURSIVE DerLoop(_, _, _, _, _, _)
DerLoop(K, diff_points, u, before, j, st) ==
  IF j < 0 THEN st
  ELSE DerLoop(K, diff_points, u, before, j - 1,
               DerStep(K, diff_points, u, before, j, st))

\* The Dof x Dof*(K+1) matrix behind der, as the sequence of its K + 1
\* Dof x Dof blocks, block<Dof, Dof>(0, j * Dof) at place j + 1
Blocks(d, K) ==
  [b \in 1..(K + 1) |-> [i \in 1..3 |-> [c \in 1..3 |-> d[b - 1][i - 1][c - 1]]]]

\* What a throw at line 94 or 197 leaves behind: no output has been touched
Throw(exc, buf) ==
  [exc |-> exc, ret |-> <<>>, vel |-> buf.vel, acc |-> buf.acc, der |-> buf.der,
   reads |-> {}]

\* Lines 98-169, entered with a window of size K
Evaluate(K, g_0, diff_points, u, has, buf, before) ==
  IF (has.vel \/ has.acc) /\ ~has.vel
  THEN Throw(BadOptionalAccess, buf)
  ELSE
    LET st0 == [g |-> g_0,
                vel |-> IF has.vel \/ has.acc THEN ZeroTangent ELSE buf.vel,
                acc |-> IF has.acc THEN ZeroTangent ELSE buf.acc]
        st == Fold(K, diff_points, u, has, 1, st0)
        d == IF has.der
             THEN DerLoop(K, diff_points, u, before, K,
                          [z2inv |-> Identity,
                           der |-> [j \in 0..K |-> ZeroMat(3, 3)],
                           reads |-> {}])
             ELSE [z2inv |-> Identity, der |-> <<>>, reads |-> {}]
    IN  [exc |-> NoThrow, ret |-> <<st.g>>, vel |-> st.vel, acc |-> st.acc,
         der |-> IF has.der THEN Blocks(d.der, K) ELSE buf.der, reads |-> d.reads]

\* The outputs are zeroed before the size of the window is looked at
bspline_eval_ZeroFirst(K, g_0, diff_points, u, has, buf, before) ==
  IF Len(diff_points) # K
  THEN Throw(SizeError("diff_points range must be size K", K, Len(diff_points)),
             [buf EXCEPT !.vel = IF has.vel THEN ZeroTangent ELSE buf.vel])
  ELSE Evaluate(K, g_0, diff_points, u, has, buf, before)

\* has: which optional outputs are present; buf: what their storage holds on
\* entry; before: the Tangent stored just in front of diff_points.
bspline_eval(K, g_0, diff_points, u, has, buf, before) ==
  IF Len(diff_points) # K
  THEN Throw(SizeError("diff_points range must be size K", K, Len(diff_points)), buf)
  ELSE Evaluate(K, g_0, diff_points, u, has, buf, before)

----------------------------------------------------------------------------
(* bspline_eval, control-point form *)

\* Each displacement taken from the later control point to the earlier one
diff_pts_Swapped(K, ctrl_points) ==
  [i \in 1..K |-> Log(Compose(Inverse(ctrl_points[i + 1]), ctrl_points[i]))]

\* for (auto i = 0u; i != K; ++i) diff_pts[i] = ((*b1).inverse() * (*b2)).log()
diff_pts(K, ctrl_points) ==
  [i \in 1..K |-> Log(Compose(Inverse(ctrl_points[i]), ctrl_points[i + 1]))]

bspline_eval_ctrl(K, ctrl_points, u, has, buf, before) ==
  IF Len(ctrl_points) # K + 1
  THEN Throw(SizeError("ctrl_points range must be size K+1", K + 1, Len(ctrl_points)),
             buf)
  ELSE bspline_eval(K, ctrl_points[1], diff_pts(K, ctrl_points), u, has, buf, before)

----------------------------------------------------------------------------
(* class BSpline<K, G> *)

PosInf == <<1, 0>>
NegInf == <<-1, 0>>
IsFinite(t) == t[2] # 0

\* BSpline(): t0_(0), dt_(1), ctrl_pts_(K + 1, G::Identity())
DefaultBSpline(K) ==
  [K |-> K, t0 |-> Zero, dt |-> One, ctrl_pts |-> [i \in 1..(K + 1) |-> Identity]]

\* BSpline(double t0, double dt, const R & ctrl_pts)
BSpline(K, t0, dt, ctrl_pts) ==
  [K |-> K, t0 |-> t0, dt |-> dt, ctrl_pts |-> ctrl_pts]

t_min(sp) == sp.t0

t_max(sp) == RAdd(sp.t0, RMul(FromInt(Len(sp.ctrl_pts) - sp.K), sp.dt))

\* (t - t0_) / dt_ in double arithmetic, dt_ > 0
Quotient(sp, t) == IF IsFinite(t) THEN RDiv(RSub(t, sp.t0), sp.dt) ELSE t

\* The values int64_t can hold are modelled only up to their sign and to
\* their exceeding every control-point count: nothing else of an
\* out-of-range istar is read before lines 275 and 278 overwrite it.
INT64_MAX == 2 ^ 30
INT64_MIN == -(2 ^ 30)

\* What static_cast<int64_t>(q) yields for a q no int64_t can hold: the
\* conversion is undefined; x86-64 (cvttsd2si) yields INT64_MIN for every
\* such q, AArch64 (fcvtzs) saturates.
OutOfRangeCast(q) == IF q[1] > 0 THEN {INT64_MIN, INT64_MAX} ELSE {INT64_MIN}

CastResults(q) ==
  IF IsFinite(q)
  THEN {IF q[1] >= 0 THEN q[1] \div q[2] ELSE -((-q[1]) \div q[2])}
  ELSE OutOfRangeCast(q)

\* ctrl_pts_ | std::views::drop(istar) | std::views::take(K + 1)
DropTake(ctrl_pts, istar, n) ==
  LET last == IF istar + n < Len(ctrl_pts) THEN istar + n ELSE Len(ctrl_pts)
  IN  SubSeq(ctrl_pts, istar + 1, last)

\* The upper clamp taken one window too early
Interval_ClampEarly(sp, t, cast) ==
  IF cast < 0 THEN [istar |-> 0, u |-> Zero]
  ELSE IF cast + sp.K + 1 >= Len(sp.ctrl_pts)
  THEN [istar |-> Len(sp.ctrl_pts) - sp.K - 1, u |-> One]
  ELSE [istar |-> cast,
        u |-> RDiv(RSub(RSub(t, sp.t0), RMul(FromInt(cast), sp.dt)), sp.dt)]

\* Lines 270-282: the interval index and the local parameter; cast is the
\* value the conversion at line 270 produced.
Interval(sp, t, cast) ==
  IF cast < 0 THEN [istar |-> 0, u |-> Zero]
  ELSE IF cast + sp.K + 1 > Len(sp.ctrl_pts)
  THEN [istar |-> Len(sp.ctrl_pts) - sp.K - 1, u |-> One]
  ELSE [istar |-> cast,
        u |-> RDiv(RSub(RSub(t, sp.t0), RMul(FromInt(cast), sp.dt)), sp.dt)]

\* The acceleration divided by dt_ once
Rescale_AccByDt(sp, has, r) ==
  IF r.exc # NoThrow THEN r
  ELSE [r EXCEPT
          !.vel = IF has.vel THEN TScale(RDiv(One, sp.dt), r.vel) ELSE r.vel,
          !.acc = IF has.acc THEN TScale(RDiv(One, sp.dt), r.acc) ELSE r.acc]

\* Lines 287-288
Rescale(sp, has, r) ==
  IF r.exc # NoThrow THEN r
  ELSE [r EXCEPT
          !.vel = IF has.vel THEN TScale(RDiv(One, sp.dt), r.vel) ELSE r.vel,
          !.acc = IF has.acc THEN TScale(RDiv(One, RMul(sp.dt, sp.dt)), r.acc)
                  ELSE r.acc]

eval(sp, t, has, buf, cast, before) ==
  LET iv == Interval(sp, t, cast)
      window == DropTake(sp.ctrl_pts, iv.istar, sp.K + 1)
      r == bspline_eval_ctrl(sp.K, window, iv.u,
                             [vel |-> has.vel, acc |-> has.acc, der |-> FALSE],
                             buf, before)
  IN  [out |-> Rescale(sp, has, r), istar |-> iv.istar, u |-> iv.u, window |-> window]

----------------------------------------------------------------------------
(* Bounds and input sets *)

MaxK == 2       \* spline degrees 1..MaxK
MaxExtra == 1   \* control points beyond the K + 1 a spline needs
TSpan == 4      \* query times range over -TSpan/2 .. 3*TSpan/2 in halves
UDen == 2       \* local parameters k/UDen, k = 0..UDen, for the free functions

gA == Exp(<<One, Zero, Zero>>)
gB == Exp(<<Zero, One, Zero>>)
GS == {Identity, gA, gB}
PS == {gA, gB}   \* control points of the splines
TS == {Log(gA), Log(gB), <<One, One, One>>}
gC == Exp(<<Zero, Zero, One>>)
VS == {gA, gC}   \* control points in a vector-space subgroup: they commute

\* Content of the caller's output storage before a call
StaleTangent == <<FromInt(7), FromInt(7), FromInt(7)>>
StaleDer == Blocks([j \in 0..0 |-> MScale(FromInt(7), IdMat)], 0)
StaleBuf == [vel |-> StaleTangent, acc |-> StaleTangent, der |-> StaleDer]

Degrees == 1..MaxK
SeqsOf(S, n) == [1..n -> S]
Clocks == {<<Zero, One>>, <<One, FromInt(2)>>, <<One, <<1, 2>>>>}
Splines ==
  UNION {{BSpline(K, c[1], c[2], pts) :
            c \in Clocks, pts \in SeqsOf(PS, K + 1 + e)} :
         K \in Degrees, e \in 0..MaxExtra}
Times == {Rat(k, 2) : k \in (-TSpan)..(3 * TSpan)} \cup {PosInf, NegInf}
Us == {Rat(k, UDen) : k \in 0..UDen}
Flags == [vel : BOOLEAN, acc : BOOLEAN, der : BOOLEAN]

\* What may lie in front of diff_points; it is read only when der is present
Before(has) == IF has.der THEN {Log(gB), <<One, One, One>>} ELSE {ZeroTangent}

Idle ==
  [op |-> "idle", K |-> 0, t |-> Zero, has |-> [vel |-> FALSE, acc |-> FALSE, der |-> FALSE],
   g_0 |-> <<>>, diff_points |-> <<>>, ctrl_points |-> <<>>,
   istar |-> 0, u |-> Zero, exc |-> NoThrow, ret |-> <<>>, reads |-> {}]

----------------------------------------------------------------------------
(* Operations *)

\* G BSpline::eval(double t, vel, acc) on the spline held in the state
Eval(t, hv, ha) ==
  /\ \E cast \in CastResults(Quotient(spline, t)) :
       \E r \in {eval(spline, t, [vel |-> hv, acc |-> ha, der |-> FALSE],
                      [vel |-> vel, acc |-> acc, der |-> der], cast, ZeroTangent)} :
           /\ call' = [op |-> "eval", K |-> spline.K, t |-> t,
                       has |-> [vel |-> hv, acc |-> ha, der |-> FALSE],
                       g_0 |-> <<>>, diff_points |-> <<>>, ctrl_points |-> r.window,
                       istar |-> r.istar, u |-> r.u, exc |-> r.out.exc,
                       ret |-> r.out.ret, reads |-> r.out.reads]
           /\ vel' = r.out.vel
           /\ acc' = r.out.acc
           /\ der' = r.out.der
  /\ UNCHANGED spline

\* bspline_eval<K, G>(g_0, diff_points, u, vel, acc, der)
CallDisp(K, g_0, diff_points, u, has) ==
  /\ \E before \in Before(has) :
       \E r \in {bspline_eval(K, g_0, diff_points, u, has,
                                [vel |-> vel, acc |-> acc, der |-> der], before)} :
           /\ call' = [op |-> "disp", K |-> K, t |-> Zero, has |-> has,
                       g_0 |-> <<g_0>>, diff_points |-> diff_points,
                       ctrl_points |-> <<>>, istar |-> 0, u |-> u,
                       exc |-> r.exc, ret |-> r.ret, reads |-> r.reads]
           /\ vel' = r.vel
           /\ acc' = r.acc
           /\ der' = r.der
  /\ UNCHANGED spline

\* bspline_eval<K, G>(ctrl_points, u, vel, acc, der)
CallCtrl(K, ctrl_points, u, has) ==
  /\ \E before \in Before(has) :
       \E r \in {bspline_eval_ctrl(K, ctrl_points, u, has,
                                     [vel |-> vel, acc |-> acc, der |-> der], before)} :
           /\ call' = [op |-> "ctrl", K |-> K, t |-> Zero, has |-> has,
                       g_0 |-> <<>>, diff_points |-> <<>>,
                       ctrl_points |-> ctrl_points, istar |-> 0, u |-> u,
                       exc |-> r.exc, ret |-> r.ret, reads |-> r.reads]
           /\ vel' = r.vel
           /\ acc' = r.acc
           /\ der' = r.der
  /\ UNCHANGED spline

\* The caller is done with the result and provides fresh output storage
Release ==
  /\ call.op # "idle"
  /\ call' = Idle
  /\ vel' = StaleBuf.vel
  /\ acc' = StaleBuf.acc
  /\ der' = StaleBuf.der
  /\ UNCHANGED spline

----------------------------------------------------------------------------
(* The spline object under queries *)

Init ==
  /\ spline \in Splines
  /\ call = Idle
  /\ vel = StaleBuf.vel
  /\ acc = StaleBuf.acc
  /\ der = StaleBuf.der

Query ==
  /\ call.op = "idle"
  /\ \E t \in Times, hv \in BOOLEAN, ha \in BOOLEAN : Eval(t, hv, ha)

Next == Query \/ Release

Spec == Init /\ [][Next]_vars

(* The two free evaluator functions *)

\* spline.K is the degree K the program instantiates the templates with
InitEval ==
  /\ spline \in {DefaultBSpline(K) : K \in Degrees}
  /\ call = Idle
  /\ vel = StaleBuf.vel
  /\ acc = StaleBuf.acc
  /\ der = StaleBuf.der

\* Windows of the right size, and one window of each wrong size K-1, K+1, K+2
DiffWindows(K) ==
  SeqsOf(TS, K) \cup {[i \in 1..n |-> Log(gA)] : n \in {K - 1, K + 1, K + 2}}
CtrlWindows(K) ==
  SeqsOf(GS, K + 1) \cup {[i \in 1..n |-> gA] : n \in {K, K + 2, K + 3}}

EvaluateDisp ==
  /\ call.op = "idle"
  /\ \E g_0 \in GS, u \in Us, has \in Flags, diff_points \in DiffWindows(spline.K) :
       CallDisp(spline.K, g_0, diff_points, u, has)

EvaluateCtrl ==
  /\ call.op = "idle"
  /\ \E u \in Us, has \in Flags, ctrl_points \in CtrlWindows(spline.K) :
       CallCtrl(spline.K, ctrl_points, u, has)

NextEval == EvaluateDisp \/ EvaluateCtrl \/ Release

SpecEval == InitEval /\ [][NextEval]_vars

----------------------------------------------------------------------------
(* Properties *)

Floor(q) == q[1] \div q[2]
Count == Len(spline.ctrl_pts)
FirstWindow == SubSeq(spline.ctrl_pts, 1, spline.K + 1)
LastWindow == SubSeq(spline.ctrl_pts, Count - spline.K, Count)
Evaluated == call.op = "eval"
SizeThrown ==
  call.exc.what \in {"diff_points range must be size K",
                     "ctrl_points range must be size K+1"}
Untouched == vel = StaleBuf.vel /\ acc = StaleBuf.acc /\ der = StaleBuf.der

\* C1: every query at a time t < t_min() is evaluated on the first window
\* (control points 0..K) with u = 0, as eval(t_min()) is.
C1_BelowStartClamps ==
  (Evaluated /\ RLt(call.t, t_min(spline)))
    => /\ call.istar = 0
       /\ call.u = Zero
       /\ call.ctrl_points = FirstWindow
       /\ LET r == eval(spline, t_min(spline), call.has, StaleBuf, 0, ZeroTangent)
          IN  call.ret = r.out.ret /\ vel = r.out.vel /\ acc = r.out.acc

\* C2: t_max() = t0 + (count - K) * dt, and every query at a time
\* t >= t_max() is evaluated on the last window (from index count-K-1) with
\* u = 1, raises no size error and takes no window past the last control point.
C2_AtOrAfterEndClamps ==
  /\ t_max(spline) = RAdd(spline.t0, RMul(FromInt(Count - spline.K), spline.dt))
  /\ (Evaluated /\ RLe(t_max(spline), call.t))
       => /\ call.istar = Count - spline.K - 1
          /\ call.u = One
          /\ call.ctrl_points = LastWindow
  /\ Evaluated
       => /\ ~SizeThrown
          /\ call.istar + spline.K + 1 <= Count

\* C3: a query at t_min() <= t < t_max() is not clamped: istar is
\* floor((t - t0)/dt), lies in 0..count-K-1, the evaluator gets the K+1
\* control points istar..istar+K, and u = (t - t0 - istar*dt)/dt is in [0, 1).
C3_InsideNotClamped ==
  (Evaluated /\ RLe(t_min(spline), call.t) /\ RLt(call.t, t_max(spline)))
    => LET i == Floor(RDiv(RSub(call.t, spline.t0), spline.dt))
       IN  /\ call.istar = i
           /\ 0 <= i /\ i <= Count - spline.K - 1
           /\ call.ctrl_points = [n \in 1..(spline.K + 1) |-> spline.ctrl_pts[i + n]]
           /\ call.u = RDiv(RSub(RSub(call.t, spline.t0), RMul(FromInt(i), spline.dt)),
                            spline.dt)
           /\ RLe(Zero, call.u) /\ RLt(call.u, One)

C3_Witness ==
  /\ Evaluated
  /\ RLe(t_min(spline), call.t) /\ RLt(call.t, t_max(spline))
  /\ call.istar = 1
  /\ call.u = <<1, 2>>
  /\ call.ctrl_points[1] # call.ctrl_points[spline.K + 1]

\* C4: the displacement form throws the size error exactly when the window
\* does not hold K displacements, the control-point form exactly when it does
\* not hold K+1 control points; the error carries the expected and the actual
\* count, and vel, acc and der are untouched when it is thrown.
C4_SizeViolation ==
  /\ call.op = "disp"
       => /\ SizeThrown <=> Len(call.diff_points) # call.K
          /\ SizeThrown
               => /\ call.exc = SizeError("diff_points range must be size K",
                                          call.K, Len(call.diff_points))
                  /\ call.ret = <<>>
                  /\ Untouched
  /\ call.op = "ctrl"
       => /\ SizeThrown <=> Len(call.ctrl_points) # call.K + 1
          /\ SizeThrown
               => /\ call.exc = SizeError("ctrl_points range must be size K+1",
                                          call.K + 1, Len(call.ctrl_points))
                  /\ call.ret = <<>>
                  /\ Untouched

C4_Witness ==
  /\ call.op = "disp"
  /\ Len(call.diff_points) = call.K + 2
  /\ call.has = [vel |-> TRUE, acc |-> TRUE, der |-> TRUE]
  /\ call.exc.got = call.K + 2

\* C5: with a window of the right size, the evaluator and BSpline::eval
\* return a group value and throw nothing, whichever of vel, acc and der are
\* present.
C5_NoOtherFailure ==
  \/ call.op = "idle"
  \/ call.op = "disp" /\ Len(call.diff_points) # call.K
  \/ call.op = "ctrl" /\ Len(call.ctrl_points) # call.K + 1
  \/ call.exc = NoThrow /\ Len(call.ret) = 1

\* The polynomial with coefficients c[0..K] at u
RECURSIVE Horner(_, _, _, _)
Horner(c, k, K, u) ==
  IF k = K THEN c[K] ELSE RAdd(c[k], RMul(u, Horner(c, k + 1, K, u)))

\* Cumulative basis function j of degree K at u: row j of the transposed
\* cumulative coefficient matrix
CumBasis(K, j, u) == Horner(Ms[K][j], 0, K, u)

Returned == call.exc = NoThrow /\ Len(call.ret) = 1

\* C6 as stated: whatever the degree K >= 1, the displacement form at u = 0
\* returns g_0, every B~_j(0), j = 1..K, being 0, and the control-point form
\* at u = 1 returns ctrl_points[K], every B~_j(1), j = 1..K, being 1.
C6_BoundaryEveryDegree ==
  /\ (call.op = "disp" /\ Returned /\ call.u = Zero)
       => /\ call.ret = call.g_0
          /\ \A j \in 1..call.K : CumBasis(call.K, j, Zero) = Zero
  /\ (call.op = "ctrl" /\ Returned /\ call.u = One)
       => /\ call.ret = <<call.ctrl_points[call.K + 1]>>
          /\ \A j \in 1..call.K : CumBasis(call.K, j, One) = One

\* C6 amended: for degree K = 1 the displacement form at u = 0 returns g_0
\* and the control-point form at u = 1 returns ctrl_points[1]; for every
\* degree K in 1..MaxDeg only the last cumulative basis function vanishes at
\* 0 and only the first one reaches 1 at 1: B~_K(0) = 0 and B~_1(1) = 1.
C6_BoundaryDegreeOne ==
  /\ \A K \in 1..MaxDeg : CumBasis(K, K, Zero) = Zero /\ CumBasis(K, 1, One) = One
  /\ (call.op = "disp" /\ Returned /\ call.K = 1 /\ call.u = Zero)
       => call.ret = call.g_0
  /\ (call.op = "ctrl" /\ Returned /\ call.K = 1 /\ call.u = One)
       => call.ret = <<call.ctrl_points[2]>>

C6_Witness ==
  /\ call.op = "ctrl" /\ Returned /\ call.K = 1 /\ call.u = One
  /\ call.ctrl_points[1] # call.ctrl_points[2]
  /\ call.ret = <<call.ctrl_points[2]>>

\* C7: for K = 1 the spline is the clamped piecewise-linear interpolant:
\* c_0 below t0, c_N from t_max on, and c_i * exp(u * log(c_i^-1 * c_{i+1}))
\* at t0 + (i + u) * dt with 0 <= i < N and 0 <= u < 1.
C7_ClampedLinear ==
  (Evaluated /\ spline.K = 1 /\ Returned)
    => LET c == spline.ctrl_pts
           q == RDiv(RSub(call.t, spline.t0), spline.dt)
           i == Floor(q)
           u == RSub(q, FromInt(i))
       IN  /\ RLt(call.t, spline.t0) => call.ret = <<c[1]>>
           /\ RLe(t_max(spline), call.t) => call.ret = <<c[Count]>>
           /\ (RLe(spline.t0, call.t) /\ RLt(call.t, t_max(spline)))
                => call.ret =
                     <<Compose(c[i + 1],
                               Exp(TScale(u, Log(Compose(Inverse(c[i + 1]), c[i + 2])))))>>

\* C8: eval returns the evaluator's velocity divided by dt and its
\* acceleration divided by dt^2; a spline with dt = 2 returns, at the time
\* that gives the same window and the same u, half the velocity and a quarter
\* of the acceleration of the spline with the same control points, the same
\* t0 and dt = 1, and the same group value.
C8_DerivativeScaling ==
  (Evaluated /\ Returned)
    => /\ LET e == bspline_eval_ctrl(spline.K, call.ctrl_points, call.u, call.has,
                                     StaleBuf, ZeroTangent)
          IN  /\ call.ret = e.ret
              /\ call.has.vel => vel = TScale(RDiv(One, spline.dt), e.vel)
              /\ call.has.acc
                   => acc = TScale(RDiv(One, RMul(spline.dt, spline.dt)), e.acc)
       /\ (spline.dt = FromInt(2) /\ IsFinite(call.t))
            => LET unit == [spline EXCEPT !.dt = One]
                   q == RDiv(RSub(call.t, spline.t0), spline.dt)
                   t1 == RAdd(spline.t0, q)
               IN  \A cast \in CastResults(Quotient(unit, t1)) :
                     LET r == eval(unit, t1, call.has, StaleBuf, cast, ZeroTangent)
                     IN  /\ r.window = call.ctrl_points
                         /\ r.u = call.u
                         /\ r.out.ret = call.ret
                         /\ call.has.vel => vel = TScale(<<1, 2>>, r.out.vel)
                         /\ call.has.acc => acc = TScale(<<1, 4>>, r.out.acc)

C8_Witness ==
  /\ Evaluated /\ Returned
  /\ spline.dt = FromInt(2)
  /\ call.has.vel /\ call.has.acc
  /\ call.istar = 1
  /\ call.u = <<1, 4>>
  /\ vel # ZeroTangent
  /\ acc # ZeroTangent

\* The displacements of a window of control points, in index order
Displacements(c, K) ==
  [i \in 1..K |-> Log(Compose(Inverse(c[i]), c[i + 1]))]

\* C9: the control-point form returns the value, velocity, acceleration and
\* Jacobian (or throws what) the displacement form does when called with
\* g_0 = c_0 and v_i = log(c_{i-1}^-1 * c_i), i = 1..K.
C9_FormsAgree ==
  (call.op = "ctrl" /\ Len(call.ctrl_points) = call.K + 1)
    => \A before \in Before(call.has) :
         LET e == bspline_eval(call.K, call.ctrl_points[1],
                               Displacements(call.ctrl_points, call.K),
                               call.u, call.has, StaleBuf, before)
         IN  /\ call.exc = e.exc
             /\ call.ret = e.ret
             /\ vel = e.vel
             /\ acc = e.acc
             /\ der = e.der

C9_Witness ==
  /\ call.op = "ctrl" /\ Returned
  /\ call.K = 2
  /\ call.has = [vel |-> TRUE, acc |-> TRUE, der |-> TRUE]
  /\ call.ctrl_points[1] # call.ctrl_points[2]
  /\ call.ctrl_points[2] # call.ctrl_points[3]
  /\ call.u = <<1, 2>>
  /\ acc # ZeroTangent

RECURSIVE OrderedProduct(_, _, _, _, _)
OrderedProduct(g, v, K, u, j) ==
  IF j > K THEN g
  ELSE OrderedProduct(Compose(g, Exp(TScale(CumBasis(K, j, u), v[j]))), v, K, u, j + 1)

\* C10: the displacement form returns the ordered product
\* g_0 * exp(B~_1(u) v_1) * ... * exp(B~_K(u) v_K): factor j pairs cumulative
\* basis function j (never 0) with the j-th displacement, each used once.
C10_LeftToRightFold ==
  (call.op = "disp" /\ Returned)
    => call.ret = <<OrderedProduct(call.g_0[1], call.diff_points, call.K, call.u, 1)>>

C10_Witness ==
  /\ call.op = "disp" /\ Returned
  /\ call.K = 2
  /\ call.u = <<1, 2>>
  /\ Compose(Exp(call.diff_points[1]), Exp(call.diff_points[2]))
       # Compose(Exp(call.diff_points[2]), Exp(call.diff_points[1]))

\* C11: when der is requested, every displacement the Jacobian loop reads,
\* for each j from K down to 0, lies at a position 0..K-1 of diff_points;
\* no iteration reads position -1 or position K.
C11_JacobianReadsInWindow ==
  (call.op \in {"disp", "ctrl"} /\ Returned /\ call.has.der)
    => call.reads \subseteq 0..(call.K - 1)

\* The value the evaluator returns for a window of K + 1 control points at u
ValueAt(K, window, u) ==
  bspline_eval_ctrl(K, window, u, [vel |-> FALSE, acc |-> FALSE, der |-> FALSE],
                    StaleBuf, ZeroTangent).ret

\* B~_0 is the constant 1, B~_1(1) = 1, B~_{j+1}(1) = B~_j(0), B~_K(0) = 0
BasisJoins(K) ==
  /\ Ms[K][0] = [k \in 0..K |-> IF k = 0 THEN One ELSE Zero]
  /\ \A u \in Us : Btilde(K, 0, u) = One
  /\ CumBasis(K, 1, One) = One
  /\ \A j \in 1..(K - 1) : CumBasis(K, j + 1, One) = CumBasis(K, j, Zero)
  /\ CumBasis(K, K, Zero) = Zero

\* Two consecutive windows of K + 2 control points meet: the first at u = 1
\* has the value of the second at u = 0
WindowsJoin(K, c) ==
  ValueAt(K, SubSeq(c, 1, K + 1), One) = ValueAt(K, SubSeq(c, 2, K + 2), Zero)

JoinsEveryDegree ==
  \A K \in 1..MaxDeg :
    /\ BasisJoins(K)
    /\ \A c \in SeqsOf(VS, K + 2) \cup SeqsOf(PS, K + 2) : WindowsJoin(K, c)

\* C12: the spline is continuous at every interior knot.  For every degree
\* K in 1..MaxDeg, B~_0 = 1, B~_1(1) = 1, B~_{j+1}(1) = B~_j(0) for
\* 1 <= j < K and B~_K(0) = 0, so window i at u = 1 has the value of window
\* i + 1 at u = 0; eval at an interior knot returns the value the window
\* before it has at u = 1, and eval at t_max() is the last window at u = 1,
\* the value the evaluations below t_max() tend to.
C12_ContinuousAtKnots ==
  /\ JoinsEveryDegree
  /\ (Evaluated /\ Returned /\ call.u = Zero /\ call.istar >= 1)
       => call.ret = ValueAt(spline.K,
                             SubSeq(spline.ctrl_pts, call.istar, call.istar + spline.K),
                             One)
  /\ (Evaluated /\ Returned /\ call.t = t_max(spline))
       => /\ call.istar = Count - spline.K - 1
          /\ call.u = One
          /\ call.ret = ValueAt(spline.K, LastWindow, One)

C12_Witness ==
  /\ Evaluated /\ Returned
  /\ spline.K = 2
  /\ call.istar = 1
  /\ call.u = Zero
  /\ call.t = RAdd(spline.t0, spline.dt)
  /\ spline.ctrl_pts[1] # spline.ctrl_pts[2]
  /\ spline.ctrl_pts[3] # spline.ctrl_pts[4]
  /\ call.ret # <<spline.ctrl_pts[2]>>

====
